---- MODULE Spec2Model ----
(***************************************************************************)
(* Model of the energy-cost-analyser: the CSV merge engine of              *)
(* AEMODataDownloader (src/src/aemo_data_downloader.py) and the billing    *)
(* aggregation of MeterDataParser / PricingManager (src/src/main.py,       *)
(* src/src/pricing.py).                                                    *)
(*                                                                         *)
(* Times of the merge engine are seconds since an epoch.  A date cell of   *)
(* the CSV is a text in one of two layouts, "dmy" (DD/MM/YYYY HH:MM:SS,    *)
(* what strftime writes) or "iso" (YYYY-MM-DD HH:MM:SS, what str() of a    *)
(* pandas Timestamp writes); in memory a cell can also be a Timestamp      *)
(* ("ts").  An NMI cell is text in the file ("txt"); read_csv infers an    *)
(* integer column when every NMI is numeric ("int"), strings otherwise     *)
(* ("str"); rows coming from the NEM12 reader carry strings.  Register     *)
(* codes, channel suffixes and the hour ranges of the tariff are texts,    *)
(* sequences of characters, so that formatting and parsing them are        *)
(* computed.                                                               *)
(***************************************************************************)
EXTENDS Integers, Sequences, FiniteSets, TLC

VARIABLES
    csv_file,        \* the persisted "Energy Providers - Raw Data.csv"
    last,            \* the last direct call of _append_to_csv and what it returned
    df,              \* MeterDataParser.df, the readings the billing walks
    pricing_config,  \* PricingManager.pricing_config[vendor]
    cost_range,      \* the last call of calculate_cost_range and its result
    breakdown,       \* the last call of calculate_detailed_breakdown and its result
    imported,        \* download_and_update_data and its result, if it was the
                     \* last operation on the store
    last_entry,      \* get_last_entry_date and its result, if it was the last
                     \* operation on the store
    hour_check,      \* the arguments of a call of _is_hour_in_range and, once
                     \* it is made, its result
    rate_query,      \* the last calls of get_rate, get_rate_type, get_solar_rate
    importers        \* the processes that run _append_to_csv on the shared
                     \* file at the same time: where each is, what it loaded

vars == <<csv_file, last, df, pricing_config, cost_range, breakdown,
          imported, last_entry, hour_check, rate_query, importers>>

storeVars == <<csv_file, last>>

billingVars == <<df, pricing_config, cost_range, breakdown>>

importVars == <<imported, last_entry>>

pricingVars == <<hour_check, rate_query>>

concurrentVars == <<importers>>

\* Longest batch handed to _append_to_csv.
MaxBatch == 2

\* Most readings in the data frame of the billing.
MaxReadings == 3

\* Most records in an imported NEM12 file.
MaxFile == 2

\* Most hour ranges in the list handed to _is_hour_in_range.
MaxRanges == 2

-----------------------------------------------------------------------------
(* Rows *)

\* Python's None, and a value that is present.
None == <<>>
Some(v) == <<v>>

NumericNMIs == {"4103"}

\* The meter serial number and the channel suffixes of the NEM12 records; a
\* serial number, a suffix and a register code are texts, sequences of
\* characters.
Serno == <<"S">>
SuffixE1 == <<"E", "1">>
SuffixB1 == <<"B", "1">>
SuffixQ1 == <<"Q", "1">>

\* f"{row.get('serno', 'UNKNOWN')}#{suffix}"
RegisterCodeOf(serno, suffix) == serno \o <<"#">> \o suffix

\* Lexicographic order of the NMI and register-code texts of the model.
NMIOrder == <<"4103", "NB01">>
RegisterOrder ==
    << RegisterCodeOf(Serno, SuffixB1), RegisterCodeOf(Serno, SuffixE1),
       RegisterCodeOf(Serno, SuffixQ1) >>

Rank(order, s) == CHOOSE i \in 1..Len(order) : order[i] = s

\* A record of the frame nemreader reads from a NEM12 file: one interval of
\* 30 minutes of one channel.
Nem12Row(nmi, suffix, t_start, value) ==
    [nmi |-> nmi, suffix |-> suffix, serno |-> Serno, t_start |-> t_start,
     t_end |-> t_start + 1800, value |-> value, quality |-> "A"]

\* suffix.startswith(prefix)
StartsWith(text, prefix) ==
    /\ Len(text) >= Len(prefix)
    /\ SubSeq(text, 1, Len(prefix)) = prefix

\* Every suffix is given the rate type Usage.
RateTypeAlwaysUsage(suffix) == "Usage"

\* rate_type of a suffix: E.. is Usage, B.. is Solar, anything else Other.
RateTypeOf(suffix) ==
    IF StartsWith(suffix, <<"E">>) THEN "Usage"
    ELSE IF StartsWith(suffix, <<"B">>) THEN "Solar"
    ELSE "Other"

\* A row as _convert_nem12_to_csv_format builds it: string NMI, dates
\* formatted with strftime('%d/%m/%Y %H:%M:%S').  The columns the model
\* leaves out are constant or computed from StartDate.
ConvertedRow(row) ==
    [NMI |-> [s |-> row.nmi, ty |-> "str"],
     RegisterCode |-> RegisterCodeOf(row.serno, row.suffix),
     RateTypeDescription |-> RateTypeOf(row.suffix),
     StartDate |-> [k |-> "dmy", t |-> row.t_start],
     EndDate |-> [k |-> "dmy", t |-> row.t_end],
     ProfileReadValue |-> row.value,
     QualityFlag |-> row.quality]

\* for _, row in nem12_df.iterrows(): converted_rows.append(converted_row)
ConvertNem12ToCsvFormat(nem12_df) ==
    [i \in 1..Len(nem12_df) |-> ConvertedRow(nem12_df[i])]

\* The readings the batches handed to the merge engine can hold.
NewRows ==
    { ConvertedRow(Nem12Row("4103", SuffixE1, 0, 1)),
      ConvertedRow(Nem12Row("4103", SuffixE1, 30, 2)),
      ConvertedRow(Nem12Row("4103", SuffixB1, 0, 1)),
      ConvertedRow(Nem12Row("NB01", SuffixE1, 0, 1)) }

Batches == UNION { [1..n -> NewRows] : n \in 1..MaxBatch }

MissingFile == [exists |-> FALSE, header |-> FALSE, rows |-> <<>>]

-----------------------------------------------------------------------------
(* pandas conversions used by the merge engine *)

\* A parser that accepts a date text in any layout.
CanParseAnyLayout(cell) == TRUE

\* pd.to_datetime(cell, format='%d/%m/%Y %H:%M:%S') accepts a DD/MM/YYYY text
\* or a value that already is a Timestamp; any other text raises ValueError.
CanParse(cell) == cell.k \in {"dmy", "ts"}

ToDatetime(cell) == [k |-> "ts", t |-> cell.t]

\* pd.read_csv: the rows of the file; the NMI column becomes int64 when every
\* NMI text is numeric, a column of strings otherwise.
ReadCsv(rows) ==
    LET numeric == \A i \in 1..Len(rows) : rows[i].NMI.s \in NumericNMIs
    IN  [i \in 1..Len(rows) |->
            [rows[i] EXCEPT !.NMI.ty = IF numeric THEN "int" ELSE "str"]]

\* What to_csv writes for a cell: str() of a Timestamp is the ISO layout, a
\* string is written as it is.
CellText(cell) == IF cell.k = "ts" THEN [k |-> "iso", t |-> cell.t] ELSE cell

ToCsv(rows) ==
    [i \in 1..Len(rows) |->
        [rows[i] EXCEPT !.NMI.ty = "txt",
                        !.StartDate = CellText(rows[i].StartDate),
                        !.EndDate = CellText(rows[i].EndDate)]]

\* The key with the seconds kept (strftime('%Y%m%d%H%M%S')).
KeyWithSeconds(row) == <<row.NMI.s, row.RegisterCode, row.StartDate.t>>

\* NMI + '_' + RegisterCode + '_' + StartDate.strftime('%Y%m%d%H%M'): the
\* seconds of the start are dropped.
Key(row) == <<row.NMI.s, row.RegisterCode, row.StartDate.t \div 60>>

KeysOf(rows) == { Key(rows[i]) : i \in 1..Len(rows) }

\* Order of sort_values(['NMI', 'RegisterCode', 'StartDate_dt']).  In an NMI
\* column that mixes integers and strings the integers sort first.
NMILess(a, b) ==
    \/ a.ty = "int" /\ b.ty = "str"
    \/ a.ty = b.ty /\ Rank(NMIOrder, a.s) < Rank(NMIOrder, b.s)

SortLess(a, b) ==
    \/ NMILess(a.NMI, b.NMI)
    \/ /\ a.NMI = b.NMI
       /\ \/ Rank(RegisterOrder, a.RegisterCode) < Rank(RegisterOrder, b.RegisterCode)
          \/ /\ a.RegisterCode = b.RegisterCode
             /\ a.StartDate.t < b.StartDate.t

\* Stable insertion of x into a sorted sequence: after every row not greater.
RECURSIVE InsertSorted(_, _)
InsertSorted(x, seq) ==
    IF seq = <<>> THEN <<x>>
    ELSE IF SortLess(x, Head(seq)) THEN <<x>> \o seq
    ELSE <<Head(seq)>> \o InsertSorted(x, Tail(seq))

RECURSIVE SortValues(_)
SortValues(rows) ==
    IF rows = <<>> THEN <<>>
    ELSE InsertSorted(rows[Len(rows)], SortValues(SubSeq(rows, 1, Len(rows) - 1)))

-----------------------------------------------------------------------------
(* AEMODataDownloader._append_to_csv *)

ParseDates(rows) ==
    [i \in 1..Len(rows) |->
        [rows[i] EXCEPT !.StartDate = ToDatetime(rows[i].StartDate),
                        !.EndDate = ToDatetime(rows[i].EndDate)]]

AllParse(rows) ==
    \A i \in 1..Len(rows) : CanParse(rows[i].StartDate) /\ CanParse(rows[i].EndDate)

\* Of the incoming rows only StartDate is parsed (StartDate_dt).
StartDatesParse(rows) == \A i \in 1..Len(rows) : CanParse(rows[i].StartDate)

\* The filter without its negation: keeps the duplicates, drops the new rows.
RemoveDuplicatesInverted(new_data, existing_data) ==
    SelectSeq(new_data, LAMBDA r : Key(r) \in KeysOf(existing_data))

\* new_data[~new_data['_key'].isin(existing_data['_key'])]
RemoveDuplicates(new_data, existing_data) ==
    SelectSeq(new_data, LAMBDA r : Key(r) \notin KeysOf(existing_data))

\* The part of _append_to_csv before to_csv: what it decides to do.
\*   "error"  an exception was raised (reading an empty file, a date of the
\*            file or a StartDate of new_data that does not parse):
\*            (False, "Error saving data: ...")
\*   "no_new" every incoming row was a duplicate: (True, "No new unique ...")
\*   "write"  combined is to be written; added = len(new_data) of the message
Prepare(csv, new_data) ==
    IF csv.exists
    THEN IF \/ ~csv.header \/ ~AllParse(ReadCsv(csv.rows))
            \/ ~StartDatesParse(new_data)
         THEN [do |-> "error", combined |-> <<>>, added |-> 0]
         ELSE LET existing_data == ParseDates(ReadCsv(csv.rows))
                  kept == RemoveDuplicates(new_data, existing_data)
              IN  IF kept = <<>>
                  THEN [do |-> "no_new", combined |-> <<>>, added |-> 0]
                  ELSE [do |-> "write",
                        combined |-> SortValues(existing_data \o kept),
                        added |-> Len(kept)]
    ELSE IF ~StartDatesParse(new_data)
         THEN [do |-> "error", combined |-> <<>>, added |-> 0]
         ELSE [do |-> "write", combined |-> SortValues(new_data),
               added |-> Len(new_data)]

WrittenFile(rows) == [exists |-> TRUE, header |-> TRUE, rows |-> ToCsv(rows)]

\* The file a to_csv that raises leaves behind.  to_csv opens the target for
\* writing, which truncates it, then writes the header and the rows:
\*   cut = 0      the open itself failed, the file is as it was
\*   cut = 1      truncated, nothing written (a file of zero bytes)
\*   cut = 2 + j  the header and the first j rows, j < len(rows)
PartialFile(csv, rows, cut) ==
    IF cut = 0 THEN csv
    ELSE IF cut = 1 THEN [exists |-> TRUE, header |-> FALSE, rows |-> <<>>]
    ELSE WrittenFile(SubSeq(rows, 1, cut - 2))

Outcome(new_data, ok, msg, added) ==
    [op |-> "append", batch |-> new_data, pre |-> csv_file, ok |-> ok,
     msg |-> msg, added |-> added,
     repeat |-> last.op = "append" /\ last.ok /\ last.batch = new_data]

\* _append_to_csv(new_data) where to_csv, if reached, succeeds.
AppendToCsv(new_data) ==
    \E p \in {Prepare(csv_file, new_data)} :
        /\ csv_file' = IF p.do = "write" THEN WrittenFile(p.combined) ELSE csv_file
        /\ last' = CASE p.do = "error"  -> Outcome(new_data, FALSE, "error", 0)
                     [] p.do = "no_new" -> Outcome(new_data, TRUE, "no_new_unique", 0)
                     [] p.do = "write"  -> Outcome(new_data, TRUE, "saved", p.added)
        /\ UNCHANGED <<billingVars, importVars, pricingVars, concurrentVars>>

\* _append_to_csv(new_data) where to_csv raises (disk full, I/O error) after
\* `cut` pieces: the except clause returns (False, "Error saving data: ...").
AppendToCsvWriteError(new_data) ==
    \E p \in {Prepare(csv_file, new_data)} :
        /\ p.do = "write"
        /\ \E cut \in 0..(Len(p.combined) + 1) :
              csv_file' = PartialFile(csv_file, p.combined, cut)
        /\ last' = Outcome(new_data, FALSE, "error", 0)
        /\ UNCHANGED <<billingVars, importVars, pricingVars, concurrentVars>>

NoOutcome ==
    [op |-> "none", batch |-> <<>>, pre |-> MissingFile, ok |-> TRUE,
     msg |-> "none", added |-> 0, repeat |-> FALSE]

-----------------------------------------------------------------------------
(* AEMODataDownloader.get_last_entry_date, parse_nem12_file and              *)
(* download_and_update_data                                                  *)

MaxOf(S) == CHOOSE m \in S : \A x \in S : x <= m

EndDatesOf(rows) == { rows[i].EndDate.t : i \in 1..Len(rows) }

\* The last EndDate of the whole file, whatever the NMI.
GetLastEntryDateOfAnyNMI(csv, nmi) ==
    IF ~csv.exists \/ ~csv.header \/ ~AllParse(ReadCsv(csv.rows)) \/ csv.rows = <<>>
    THEN None
    ELSE Some(MaxOf(EndDatesOf(ParseDates(ReadCsv(csv.rows)))))

\* get_last_entry_date: None when the file is missing, when reading or parsing
\* it raises (the except clause), when it has no rows or none of the NMI;
\* otherwise the greatest EndDate of the rows whose NMI, as a string, is nmi.
GetLastEntryDate(csv, nmi) ==
    IF ~csv.exists THEN None
    ELSE IF ~csv.header \/ ~AllParse(ReadCsv(csv.rows)) THEN None
    ELSE LET frame == ParseDates(ReadCsv(csv.rows))
             nmi_data == SelectSeq(frame, LAMBDA row : row.NMI.s = nmi)
         IN  IF frame = <<>> \/ nmi_data = <<>> THEN None
             ELSE Some(MaxOf(EndDatesOf(nmi_data)))

NoLastEntry == [called |-> FALSE, nmi |-> "", res |-> None]

\* parse_nem12_file(nem12_file_path, target_nmi): the records of the NMI,
\* converted.
ParseNem12File(nem12_df, target_nmi) ==
    ConvertNem12ToCsvFormat(SelectSeq(nem12_df, LAMBDA row : row.nmi = target_nmi))

\* The import without its pre-filter.
FilterNothing(new_data, from_date) == new_data

\* new_data[new_data['StartDate_dt'] >= from_date], if from_date is set.
FilterFromDate(new_data, from_date) ==
    IF from_date = None THEN new_data
    ELSE SelectSeq(new_data, LAMBDA row : row.StartDate.t >= from_date[1])

\* from_date after "Determine start date": the argument, or the last entry of
\* the NMI plus 30 minutes, or None.
StartDateOf(csv, nmi, from_date) ==
    IF from_date # None THEN from_date
    ELSE LET last_date == GetLastEntryDate(csv, nmi)
         IN  IF last_date # None THEN Some(last_date[1] + 1800) ELSE None

\* The nem12_file_path argument: None, a path with no file, or a file.
NoPath == [given |-> FALSE, exists |-> FALSE, rows |-> <<>>]
MissingPath == [given |-> TRUE, exists |-> FALSE, rows |-> <<>>]
Nem12File(rows) == [given |-> TRUE, exists |-> TRUE, rows |-> rows]

Run(ret, from_date, converted, new_data) ==
    [ret |-> ret, from_date |-> from_date, converted |-> converted,
     new_data |-> new_data]

\* download_and_update_data up to the call of _append_to_csv: where it
\* returns, or the batch it hands to the merge engine.
Import(csv, nmi, nem12, from_date) ==
    LET start == StartDateOf(csv, nmi, from_date)
        converted == ParseNem12File(nem12.rows, nmi)
        new_data == FilterFromDate(converted, start)
    IN  IF start = None /\ ~nem12.given THEN Run("no_baseline", start, <<>>, <<>>)
        ELSE IF ~nem12.given THEN Run("not_implemented", start, <<>>, <<>>)
        ELSE IF ~nem12.exists THEN Run("not_found", start, <<>>, <<>>)
        ELSE IF converted = <<>> THEN Run("no_data", start, converted, <<>>)
        ELSE IF new_data = <<>> THEN Run("no_new_data", start, converted, <<>>)
        ELSE Run("append", start, converted, new_data)

\* The call of download_and_update_data and what it returned: ok and msg of
\* the tuple, count the number the message names.
ImportOutcome(nmi, nem12, from_arg, run, ok, msg, count) ==
    [called |-> TRUE, nmi |-> nmi, nem12 |-> nem12, from_arg |-> from_arg,
     pre |-> csv_file, ok |-> ok, msg |-> msg, count |-> count,
     from_date |-> run.from_date, converted |-> run.converted]

NoImport ==
    [called |-> FALSE, nmi |-> "", nem12 |-> NoPath, from_arg |-> None,
     pre |-> MissingFile, ok |-> TRUE, msg |-> "none", count |-> 0,
     from_date |-> None, converted |-> <<>>]

\* A call get_last_entry_date(nmi).
GetLastEntryDateCall(nmi) ==
    /\ last_entry' = [called |-> TRUE, nmi |-> nmi,
                      res |-> GetLastEntryDate(csv_file, nmi)]
    /\ imported' = NoImport
    /\ UNCHANGED <<storeVars, billingVars, pricingVars, concurrentVars>>

\* download_and_update_data(nmi, nem12_file_path, from_date); to_csv, if
\* reached, succeeds or raises after `cut` pieces.
DownloadAndUpdateData(nmi, nem12, from_date) ==
    \E run \in {Import(csv_file, nmi, nem12, from_date)} :
        IF run.ret = "append"
        THEN \E p \in {Prepare(csv_file, run.new_data)} :
                /\ \/ /\ csv_file' = IF p.do = "write" THEN WrittenFile(p.combined)
                                      ELSE csv_file
                      /\ imported' =
                            IF p.do = "error"
                            THEN ImportOutcome(nmi, nem12, from_date, run, FALSE,
                                               "error", 0)
                            ELSE ImportOutcome(nmi, nem12, from_date, run, TRUE,
                                               "added", Len(run.new_data))
                   \/ /\ p.do = "write"
                      /\ \E cut \in 0..(Len(p.combined) + 1) :
                            csv_file' = PartialFile(csv_file, p.combined, cut)
                      /\ imported' = ImportOutcome(nmi, nem12, from_date, run, FALSE,
                                                   "error", 0)
                /\ last_entry' = NoLastEntry
                /\ UNCHANGED <<last, billingVars, pricingVars, concurrentVars>>
        ELSE /\ imported' = ImportOutcome(nmi, nem12, from_date, run,
                                          run.ret = "no_new_data", run.ret, 0)
             /\ last_entry' = NoLastEntry
             /\ UNCHANGED <<storeVars, billingVars, pricingVars, concurrentVars>>

-----------------------------------------------------------------------------
(* _append_to_csv called by processes that share the file *)

\* The processes that import at the same time.
Importers == {"a", "b"}

\* An importer before its call of _append_to_csv.
Idle == [pc |-> "idle", batch |-> <<>>, existing |-> MissingFile, ok |-> FALSE]

NoImporters == [p \in Importers |-> Idle]

\* The file after an importer that opened it wrote its rows from the start:
\* what another importer wrote past their end in the meantime stays.  The
\* rows of the model are all of one width.
Overwritten(csv, rows) ==
    [exists |-> TRUE, header |-> TRUE,
     rows |-> ToCsv(rows) \o SubSeq(csv.rows, Len(rows) + 1, Len(csv.rows))]

\* Importer p calls _append_to_csv(new_data) and runs it up to to_csv: it
\* loads the file as it is now, removes the duplicates and merges.  It
\* returns here when an exception is raised or no row is new.
LoadExisting(p, new_data) ==
    /\ importers[p].pc = "idle"
    /\ \E prep \in {Prepare(csv_file, new_data)} :
          importers' = [importers EXCEPT
                           ![p] = [pc |-> IF prep.do = "write" THEN "merged"
                                          ELSE "done",
                                   batch |-> new_data,
                                   existing |-> csv_file,
                                   ok |-> prep.do = "no_new"]]
    /\ UNCHANGED <<storeVars, billingVars, importVars, pricingVars>>

\* to_csv of importer p opens the file for writing, which truncates it.
OpenCsv(p) ==
    /\ importers[p].pc = "merged"
    /\ csv_file' = [exists |-> TRUE, header |-> FALSE, rows |-> <<>>]
    /\ importers' = [importers EXCEPT ![p].pc = "writing"]
    /\ UNCHANGED <<last, billingVars, importVars, pricingVars>>

\* to_csv of importer p writes the header and the rows it merged from the
\* file it loaded, and _append_to_csv returns (True, "Successfully saved ...").
WriteCsv(p) ==
    /\ importers[p].pc = "writing"
    /\ \E prep \in {Prepare(importers[p].existing, importers[p].batch)} :
          csv_file' = Overwritten(csv_file, prep.combined)
    /\ importers' = [importers EXCEPT ![p].pc = "done", ![p].ok = TRUE]
    /\ UNCHANGED <<last, billingVars, importVars, pricingVars>>

-----------------------------------------------------------------------------
(* PricingManager *)

\* A timestamp of the billing is a number of hours since Friday 31 May 2024
\* 00:00; day 1 is Saturday 1 June.
HourOf(ts) == ts % 24
DayOf(ts) == ts \div 24
WeekdayOf(ts) == (DayOf(ts) + 4) % 7
MonthOf(ts) == IF DayOf(ts) = 0 THEN 5 ELSE 6

Ok(v) == [ok |-> TRUE, v |-> v]
Raise(e) == [ok |-> FALSE, err |-> e]

\* _get_season: the first season whose months hold the month; Python's None
\* when the loop ends without a return.
RECURSIVE GetSeason(_, _)
GetSeason(periods, ts) ==
    IF periods = <<>> THEN "None"
    ELSE IF MonthOf(ts) \in Head(periods).months THEN Head(periods).season
    ELSE GetSeason(Tail(periods), ts)

DayType(ts) == IF WeekdayOf(ts) >= 5 THEN "weekend" ELSE "weekday"

\* A text is the sequence of its characters.
DigitChars == <<"0", "1", "2", "3", "4", "5", "6", "7", "8", "9">>

\* str.split(sep): the pieces of the text between the separators.
RECURSIVE Split(_, _, _)
Split(text, sep, piece) ==
    IF text = <<>> THEN <<piece>>
    ELSE IF Head(text) = sep THEN <<piece>> \o Split(Tail(text), sep, <<>>)
    ELSE Split(Tail(text), sep, Append(piece, Head(text)))

IsDigits(text) ==
    /\ text # <<>>
    /\ \A i \in 1..Len(text) : \E d \in 1..10 : DigitChars[d] = text[i]

\* int(text) of a text of decimal digits.
RECURSIVE IntOf(_, _)
IntOf(text, acc) ==
    IF text = <<>> THEN acc
    ELSE IntOf(Tail(text),
               10 * acc + (CHOOSE d \in 0..9 : DigitChars[d + 1] = Head(text)))

\* start, end = map(int, hour_range.split('-')): ValueError unless the text is
\* two numbers around one '-'.
ParseHourRange(hour_range) ==
    LET pieces == Split(hour_range, "-", <<>>)
    IN  IF Len(pieces) = 2 /\ IsDigits(pieces[1]) /\ IsDigits(pieces[2])
        THEN Ok(<<IntOf(pieces[1], 0), IntOf(pieces[2], 0)>>)
        ELSE Raise("ValueError")

\* The comparison with the end of the range included.
IsHourInRangeInclusive(hour, ranges) ==
    \E i \in 1..Len(ranges) :
        LET start == ranges[i][1]
            end == ranges[i][2]
        IN  IF start < end
            THEN start <= hour /\ hour <= end
            ELSE hour >= start \/ hour <= end

\* _is_hour_in_range, a range 'start-end' read as the pair <<start, end>>.
IsHourInRange(hour, ranges) ==
    \E i \in 1..Len(ranges) :
        LET start == ranges[i][1]
            end == ranges[i][2]
        IN  IF start < end
            THEN start <= hour /\ hour < end
            ELSE hour >= start \/ hour < end

\* _is_hour_in_range over the texts of a configuration: the ranges are parsed
\* and compared one after the other, up to the first that holds the hour.
RECURSIVE IsHourInRangeOfTexts(_, _)
IsHourInRangeOfTexts(hour, ranges) ==
    IF ranges = <<>> THEN Ok(FALSE)
    ELSE LET parsed == ParseHourRange(Head(ranges))
         IN  IF ~parsed.ok THEN parsed
             ELSE IF IsHourInRange(hour, <<parsed.v>>) THEN Ok(TRUE)
             ELSE IsHourInRangeOfTexts(hour, Tail(ranges))

\* self.pricing_config[vendor][season][day_type]: KeyError when the season
\* (or None) has no table.
VendorRates(config, ts) ==
    LET season == GetSeason(config.periods, ts)
    IN  IF season \in DOMAIN config.seasons
        THEN Ok(config.seasons[season][DayType(ts)])
        ELSE Raise("KeyError")

\* The last entry of the table whose hours hold the hour.
LastMatch(table, hour) ==
    IF \E i \in 1..Len(table) : IsHourInRange(hour, table[i].hours)
    THEN CHOOSE i \in 1..Len(table) :
            /\ IsHourInRange(hour, table[i].hours)
            /\ \A j \in (i + 1)..Len(table) : ~IsHourInRange(hour, table[j].hours)
    ELSE 0

\* The first entry, in the order of the table, whose hours hold the hour;
\* 0 when the loop ends without a return.
FirstMatch(table, hour) ==
    IF \E i \in 1..Len(table) : IsHourInRange(hour, table[i].hours)
    THEN CHOOSE i \in 1..Len(table) :
            /\ IsHourInRange(hour, table[i].hours)
            /\ \A j \in 1..(i - 1) : ~IsHourInRange(hour, table[j].hours)
    ELSE 0

\* The rate of the first entry of the table when no entry holds the hour.
GetRateOrFirstRate(config, ts) ==
    LET rates == VendorRates(config, ts)
    IN  IF ~rates.ok THEN rates
        ELSE LET m == FirstMatch(rates.v, HourOf(ts))
             IN  IF m = 0 THEN Ok(rates.v[1].rate) ELSE Ok(rates.v[m].rate)

\* get_rate: return 0.0 when the loop ends without a return.
GetRate(config, ts) ==
    LET rates == VendorRates(config, ts)
    IN  IF ~rates.ok THEN rates
        ELSE LET m == FirstMatch(rates.v, HourOf(ts))
             IN  IF m = 0 THEN Ok(0) ELSE Ok(rates.v[m].rate)

\* details.get('solar_rate', None)
GetSolarRate(config, ts) ==
    LET rates == VendorRates(config, ts)
    IN  IF ~rates.ok THEN rates
        ELSE LET m == FirstMatch(rates.v, HourOf(ts))
             IN  IF m = 0 THEN Ok(None) ELSE Ok(rates.v[m].solar_rate)

GetRateType(config, ts) ==
    LET rates == VendorRates(config, ts)
    IN  IF ~rates.ok THEN rates
        ELSE LET m == FirstMatch(rates.v, HourOf(ts))
             IN  IF m = 0 THEN Ok("off_peak") ELSE Ok(rates.v[m].name)

GetSupplyCharge(config) == config.supply_charge

NoQuery == [called |-> FALSE, ts |-> 0, res |-> Ok(0)]

NoRateQuery == [rate |-> NoQuery, rate_type |-> NoQuery, solar |-> NoQuery]

Query(ts, res) == [called |-> TRUE, ts |-> ts, res |-> res]

\* A call get_rate(vendor, timestamp).
GetRateCall(ts) ==
    /\ rate_query' = [rate_query EXCEPT !.rate = Query(ts, GetRate(pricing_config, ts))]
    /\ UNCHANGED <<storeVars, billingVars, importVars, hour_check, concurrentVars>>

\* A call get_rate_type(vendor, timestamp).
GetRateTypeCall(ts) ==
    /\ rate_query' = [rate_query EXCEPT
                         !.rate_type = Query(ts, GetRateType(pricing_config, ts))]
    /\ UNCHANGED <<storeVars, billingVars, importVars, hour_check, concurrentVars>>

\* A call get_solar_rate(vendor, timestamp).
GetSolarRateCall(ts) ==
    /\ rate_query' = [rate_query EXCEPT
                         !.solar = Query(ts, GetSolarRate(pricing_config, ts))]
    /\ UNCHANGED <<storeVars, billingVars, importVars, hour_check, concurrentVars>>

\* The arguments of a call of _is_hour_in_range that has not been made yet.
HourCheck(hour, ranges) ==
    [called |-> FALSE, hour |-> hour, ranges |-> ranges, res |-> Ok(FALSE)]

NoHourCheck == HourCheck(0, <<>>)

\* The call _is_hour_in_range(hour, ranges) on the arguments drawn.
IsHourInRangeCall ==
    /\ ~hour_check.called
    /\ hour_check' = [hour_check EXCEPT
                         !.called = TRUE,
                         !.res = IsHourInRangeOfTexts(hour_check.hour,
                                                      hour_check.ranges)]
    /\ UNCHANGED <<storeVars, billingVars, importVars, rate_query, concurrentVars>>

-----------------------------------------------------------------------------
(* MeterDataParser *)

\* self.df[self.df['StartDate'].dt.date == date.date()]
DateData(frame, date) ==
    SelectSeq(frame, LAMBDA row : DayOf(row.StartDate) = DayOf(date))

\* pd.date_range(start=start_date, end=end_date, freq='D'): start_date,
\* start_date + 1 day, ... while not after end_date.
DateRange(start_date, end_date) ==
    IF start_date > end_date THEN <<>>
    ELSE [n \in 1..((end_date - start_date) \div 24 + 1) |->
             start_date + 24 * (n - 1)]

\* The loop of calculate_cost over the rows of one day.
RECURSIVE CostLoop(_, _, _)
CostLoop(rows, config, total_cost) ==
    IF rows = <<>> THEN Ok(total_cost)
    ELSE LET row == Head(rows)
         IN  IF row.RateTypeDescription = "Usage"
             THEN LET rate == GetRate(config, row.StartDate)
                  IN  IF ~rate.ok THEN rate
                      ELSE CostLoop(Tail(rows), config,
                                    total_cost + row.ProfileReadValue * rate.v)
             ELSE CostLoop(Tail(rows), config, total_cost)

CalculateCost(frame, config, date) == CostLoop(DateData(frame, date), config, 0)

\* value * rate with rate None raises TypeError.
Times(value, rate) ==
    IF rate = None THEN Raise("TypeError") ELSE Ok(value * rate[1])

\* The loop of calculate_solar_feedin over the rows of one day.
RECURSIVE SolarLoop(_, _, _)
SolarLoop(rows, config, total_credit) ==
    IF rows = <<>> THEN Ok(total_credit)
    ELSE LET row == Head(rows)
         IN  IF row.RateTypeDescription = "Solar"
             THEN LET rate == GetSolarRate(config, row.StartDate)
                  IN  IF ~rate.ok THEN rate
                      ELSE LET credit == Times(row.ProfileReadValue, rate.v)
                           IN  IF ~credit.ok THEN credit
                               ELSE SolarLoop(Tail(rows), config,
                                              total_credit + credit.v)
             ELSE SolarLoop(Tail(rows), config, total_credit)

CalculateSolarFeedin(frame, config, date) ==
    SolarLoop(DateData(frame, date), config, 0)

\* The net cost without the supply charges.
NetCostWithoutSupply(total_cost, total_solar, total_supply_charges) ==
    total_cost - total_solar

NetCost(total_cost, total_solar, total_supply_charges) ==
    total_cost - total_solar + total_supply_charges

\* The loop of calculate_cost_range over the days of date_range.
RECURSIVE CostRangeLoop(_, _, _, _)
CostRangeLoop(dates, frame, config, acc) ==
    IF dates = <<>> THEN Ok(acc)
    ELSE LET date == Head(dates)
             usage_cost == CalculateCost(frame, config, date)
             solar_credit == CalculateSolarFeedin(frame, config, date)
         IN  IF ~usage_cost.ok THEN usage_cost
             ELSE IF ~solar_credit.ok THEN solar_credit
             ELSE CostRangeLoop(Tail(dates), frame, config,
                    [total_days |-> acc.total_days + 1,
                     daily_costs |-> acc.daily_costs \cup {<<DayOf(date), usage_cost.v>>},
                     daily_solar |-> acc.daily_solar \cup {<<DayOf(date), solar_credit.v>>},
                     total_cost |-> acc.total_cost + usage_cost.v,
                     total_solar |-> acc.total_solar + solar_credit.v,
                     total_supply_charges |->
                         acc.total_supply_charges + GetSupplyCharge(config)])

\* The totals before the first day.
CostRangeStart ==
    [total_days |-> 0, daily_costs |-> {}, daily_solar |-> {},
     total_cost |-> 0, total_solar |-> 0, total_supply_charges |-> 0]

\* What calculate_cost_range returns after its loop.
CostRangeResult(loop) ==
        IF ~loop.ok THEN loop
        ELSE Ok([daily_costs |-> loop.v.daily_costs,
                 daily_solar |-> loop.v.daily_solar,
                 total_usage_cost |-> loop.v.total_cost,
                 total_solar_credit |-> loop.v.total_solar,
                 total_supply_charges |-> loop.v.total_supply_charges,
                 net_cost |-> NetCost(loop.v.total_cost, loop.v.total_solar,
                                      loop.v.total_supply_charges),
                 total_days |-> loop.v.total_days])

UsageBuckets == {"peak", "off_peak", "shoulder"}

EmptyBreakdown ==
    [peak |-> [kwh |-> 0, cost |-> 0],
     off_peak |-> [kwh |-> 0, cost |-> 0],
     shoulder |-> [kwh |-> 0, cost |-> 0],
     solar |-> [kwh |-> 0, credit |-> 0]]

\* usage_breakdown[rate_type]['kwh'] += value; ...['cost'] += value * rate:
\* KeyError for a rate type that is no key of usage_breakdown, and for 'solar',
\* whose bucket has no 'cost'.
AddUsage(usage_breakdown, rate_type, value, rate) ==
    IF rate_type \notin UsageBuckets THEN Raise("KeyError")
    ELSE Ok([usage_breakdown EXCEPT
                ![rate_type].kwh = @ + value,
                ![rate_type].cost = @ + value * rate])

\* The inner loop of calculate_detailed_breakdown over the rows of one day.
RECURSIVE BreakdownRows(_, _, _)
BreakdownRows(rows, config, usage_breakdown) ==
    IF rows = <<>> THEN Ok(usage_breakdown)
    ELSE LET row == Head(rows)
         IN  IF row.RateTypeDescription = "Usage"
             THEN LET rate == GetRate(config, row.StartDate)
                      rate_type == GetRateType(config, row.StartDate)
                  IN  IF ~rate.ok THEN rate
                      ELSE IF ~rate_type.ok THEN rate_type
                      ELSE LET added == AddUsage(usage_breakdown, rate_type.v,
                                                 row.ProfileReadValue, rate.v)
                           IN  IF ~added.ok THEN added
                               ELSE BreakdownRows(Tail(rows), config, added.v)
             ELSE IF row.RateTypeDescription = "Solar"
             THEN LET solar_rate == GetSolarRate(config, row.StartDate)
                  IN  IF ~solar_rate.ok THEN solar_rate
                      ELSE LET credit == Times(row.ProfileReadValue, solar_rate.v)
                           IN  IF ~credit.ok THEN credit
                               ELSE BreakdownRows(Tail(rows), config,
                                      [usage_breakdown EXCEPT
                                          !.solar.kwh = @ + row.ProfileReadValue,
                                          !.solar.credit = @ + credit.v])
             ELSE BreakdownRows(Tail(rows), config, usage_breakdown)

\* The outer loop of calculate_detailed_breakdown over the days of date_range.
RECURSIVE BreakdownLoop(_, _, _, _)
BreakdownLoop(dates, frame, config, acc) ==
    IF dates = <<>> THEN Ok(acc)
    ELSE LET date == Head(dates)
             rows == BreakdownRows(DateData(frame, date), config, acc.usage_breakdown)
         IN  IF ~rows.ok THEN rows
             ELSE BreakdownLoop(Tail(dates), frame, config,
                    [total_days |-> acc.total_days + 1,
                     total_supply_charges |->
                         acc.total_supply_charges + GetSupplyCharge(config),
                     usage_breakdown |-> rows.v])

BreakdownStart ==
    [total_days |-> 0, total_supply_charges |-> 0,
     usage_breakdown |-> EmptyBreakdown]

\* What calculate_detailed_breakdown returns after its loop.
BreakdownResult(loop) ==
        IF ~loop.ok THEN loop
        ELSE LET b == loop.v.usage_breakdown
                 total_usage == b.peak.kwh + b.off_peak.kwh + b.shoulder.kwh
                 total_cost == b.peak.cost + b.off_peak.cost + b.shoulder.cost
                 sub_total_cost == total_cost + loop.v.total_supply_charges
             IN  Ok([breakdown |-> b,
                     total_usage |-> total_usage,
                     total_cost |-> total_cost,
                     total_supply_charges |-> loop.v.total_supply_charges,
                     sub_total_cost |-> sub_total_cost,
                     net_cost |-> sub_total_cost - b.solar.credit,
                     total_days |-> loop.v.total_days])

NoCall == [called |-> FALSE, start_date |-> 0, end_date |-> 0, res |-> Ok(0)]

CalculateCostRange(start_date, end_date) ==
    \E loop \in {CostRangeLoop(DateRange(start_date, end_date), df,
                               pricing_config, CostRangeStart)} :
        /\ cost_range' = [called |-> TRUE, start_date |-> start_date,
                          end_date |-> end_date, res |-> CostRangeResult(loop)]
        /\ UNCHANGED <<storeVars, df, pricing_config, breakdown,
                       importVars, pricingVars, concurrentVars>>

CalculateDetailedBreakdown(start_date, end_date) ==
    \E loop \in {BreakdownLoop(DateRange(start_date, end_date), df,
                               pricing_config, BreakdownStart)} :
        /\ breakdown' = [called |-> TRUE, start_date |-> start_date,
                         end_date |-> end_date, res |-> BreakdownResult(loop)]
        /\ UNCHANGED <<storeVars, df, pricing_config, cost_range,
                       importVars, pricingVars, concurrentVars>>

-----------------------------------------------------------------------------
(* Inputs of the billing *)

BillingRow(kind, ts, value) ==
    [RateTypeDescription |-> kind, StartDate |-> ts, ProfileReadValue |-> value]

\* Readings on Friday (day 0) and Saturday (day 1).
BillingRows ==
    { BillingRow("Usage", 15, 2),
      BillingRow("Usage", 21, 1),
      BillingRow("Usage", 24 + 15, 1),
      BillingRow("Solar", 12, 1),
      BillingRow("Solar", 15, 1),
      BillingRow("Other", 15, 1) }

DataFrames == UNION { [1..n -> BillingRows] : n \in 0..MaxReadings }

Entry(name, hours, rate, solar_rate) ==
    [name |-> name, hours |-> hours, rate |-> rate, solar_rate |-> solar_rate]

\* peak 14-20 without a solar rate, off_peak 22-14; the hours 20 and 21 match
\* no entry.
TouTable ==
    << Entry("peak", << <<14, 20>> >>, 30, None),
       Entry("off_peak", << <<22, 14>> >>, 20, Some(10)) >>

\* Overlapping ranges: shoulder 7-22 is declared before peak 14-20.
OverlapTable ==
    << Entry("shoulder", << <<7, 22>> >>, 25, Some(5)),
       Entry("peak", << <<14, 20>> >>, 30, Some(5)),
       Entry("off_peak", << <<22, 7>> >>, 15, Some(5)) >>

\* A fixed-rate plan with one rate type of its own name.
FlatTable == << Entry("flat", << <<0, 24>> >>, 28, Some(8)) >>

AllYear == << [season |-> "all", months |-> 1..12] >>

TwoSeasons ==
    << [season |-> "low", months |-> 1..5],
       [season |-> "high", months |-> 6..12] >>

Tariff(periods, seasons, supply_charge) ==
    [periods |-> periods, seasons |-> seasons, supply_charge |-> supply_charge]

\* The tariff of the billing scenario: supply charge 1.00 a day.
ScenarioTariff ==
    Tariff(AllYear,
           [s \in {"all"} |-> [weekday |-> TouTable, weekend |-> OverlapTable]],
           100)

SeasonalTariff ==
    Tariff(TwoSeasons,
           [s \in {"low", "high"} |->
               IF s = "low"
               THEN [weekday |-> OverlapTable, weekend |-> OverlapTable]
               ELSE [weekday |-> TouTable, weekend |-> TouTable]],
           90)

FlatTariff ==
    Tariff(AllYear,
           [s \in {"all"} |-> [weekday |-> FlatTable, weekend |-> FlatTable]],
           80)

\* No season holds June.
IncompleteTariff ==
    Tariff(<< [season |-> "low", months |-> 1..5] >>,
           [s \in {"low"} |-> [weekday |-> OverlapTable, weekend |-> OverlapTable]],
           90)

Configs == {ScenarioTariff, SeasonalTariff, FlatTariff, IncompleteTariff}

\* start_date and end_date of a query: Friday 00:00 or 12:00 to Friday 12:00
\* or Saturday 00:00.
StartDates == {0, 12}
EndDates == {12, 24}

-----------------------------------------------------------------------------
(* Inputs of the import *)

\* The records of the NEM12 files, in the order nemreader yields them (by NMI,
\* channel and time): the channel E1 of the NMI 4103 at 00:00, 00:30 and 01:00,
\* its channels B1 and Q1 at 00:00, and another NMI.
Nem12Rows ==
    << Nem12Row("4103", SuffixE1, 0, 1),
       Nem12Row("4103", SuffixE1, 1800, 2),
       Nem12Row("4103", SuffixE1, 3600, 1),
       Nem12Row("4103", SuffixB1, 0, 1),
       Nem12Row("4103", SuffixQ1, 0, 1),
       Nem12Row("NB01", SuffixE1, 0, 1) >>

\* The records of Nem12Rows at the indices of a set, in their order.
RECURSIVE RecordsAt(_, _)
RecordsAt(indices, i) ==
    IF i > Len(Nem12Rows) THEN <<>>
    ELSE (IF i \in indices THEN <<Nem12Rows[i]>> ELSE <<>>)
            \o RecordsAt(indices, i + 1)

\* No path, a path with no file, and the files of up to MaxFile records.
Nem12Files ==
    { NoPath, MissingPath }
        \cup { Nem12File(RecordsAt(indices, 1)) :
                  indices \in { I \in SUBSET (1..Len(Nem12Rows)) :
                                  Cardinality(I) <= MaxFile } }

NMIs == {"4103", "NB01"}

\* from_date: not given, or 00:30.
FromDates == { None, Some(1800) }

-----------------------------------------------------------------------------
(* Inputs of the pricing queries *)

\* The text 'start-end' of an hour range of the configuration.
NumberText(n) ==
    IF n < 10 THEN <<DigitChars[n + 1]>>
    ELSE <<DigitChars[(n \div 10) + 1], DigitChars[(n % 10) + 1]>>

RangeText(start, end) == NumberText(start) \o <<"-">> \o NumberText(end)

\* Lists of one range, every start and end from 0 to 24, and longer lists of
\* the ranges 22-8, 9-17, 0-0 and 17-9.
ListedRanges ==
    { RangeText(22, 8), RangeText(9, 17), RangeText(0, 0), RangeText(17, 9) }

HourRangeLists ==
    { <<RangeText(start, end)>> : start \in 0..24, end \in 0..24 }
        \cup UNION { [1..n -> ListedRanges] : n \in 2..MaxRanges }

\* Timestamps of the queries: Friday 06:00, 15:00, 20:00 and 22:00, Saturday
\* 15:00 and 21:00.
QueryTimes == {6, 15, 20, 22, 24 + 15, 24 + 21}

\* Usage readings of the frames the rate queries and the breakdown are both
\* asked about: Friday 20:00 and 22:00, Saturday 21:00.
UsageRows ==
    { BillingRow("Usage", 20, 1),
      BillingRow("Usage", 22, 2),
      BillingRow("Usage", 24 + 21, 1) }

UsageFrames == UNION { [1..n -> UsageRows] : n \in 1..MaxReadings }

\* The StartDate values of the rows of a frame.
TimesOf(frame) == { frame[i].StartDate : i \in 1..Len(frame) }

-----------------------------------------------------------------------------
(* Specifications *)

\* The merge engine, from a store that does not exist yet.
Init ==
    /\ csv_file = MissingFile
    /\ last = NoOutcome
    /\ df = <<>>
    /\ pricing_config = ScenarioTariff
    /\ cost_range = NoCall
    /\ breakdown = NoCall
    /\ imported = NoImport
    /\ last_entry = NoLastEntry
    /\ hour_check = NoHourCheck
    /\ rate_query = NoRateQuery
    /\ importers = NoImporters

Next ==
    \E new_data \in Batches :
        \/ AppendToCsv(new_data)
        \/ AppendToCsvWriteError(new_data)

Spec == Init /\ [][Next]_vars

\* The imports of NEM12 files, from a store that does not exist yet.
ImportInit == Init

ImportNext ==
    \/ \E nmi \in NMIs, nem12 \in Nem12Files, from_date \in FromDates :
          DownloadAndUpdateData(nmi, nem12, from_date)
    \/ \E nmi \in NMIs : GetLastEntryDateCall(nmi)

ImportSpec == ImportInit /\ [][ImportNext]_vars

\* The billing over a loaded data frame and tariff.
BillingInit ==
    /\ csv_file = MissingFile
    /\ last = NoOutcome
    /\ df \in DataFrames
    /\ pricing_config \in Configs
    /\ cost_range = NoCall
    /\ breakdown = NoCall
    /\ imported = NoImport
    /\ last_entry = NoLastEntry
    /\ hour_check = NoHourCheck
    /\ rate_query = NoRateQuery
    /\ importers = NoImporters

BillingNext ==
    \E start_date \in StartDates, end_date \in EndDates :
        \/ CalculateCostRange(start_date, end_date)
        \/ CalculateDetailedBreakdown(start_date, end_date)

BillingSpec == BillingInit /\ [][BillingNext]_vars

\* _is_hour_in_range over hours and lists of ranges.
HourRangeInit ==
    /\ csv_file = MissingFile
    /\ last = NoOutcome
    /\ df = <<>>
    /\ pricing_config = ScenarioTariff
    /\ cost_range = NoCall
    /\ breakdown = NoCall
    /\ imported = NoImport
    /\ last_entry = NoLastEntry
    /\ hour_check \in { HourCheck(hour, ranges) :
                            hour \in 0..23, ranges \in HourRangeLists }
    /\ rate_query = NoRateQuery
    /\ importers = NoImporters

HourRangeNext == IsHourInRangeCall

HourRangeSpec == HourRangeInit /\ [][HourRangeNext]_vars

\* The rate queries of PricingManager over a loaded tariff.
PricingInit ==
    /\ csv_file = MissingFile
    /\ last = NoOutcome
    /\ df = <<>>
    /\ pricing_config \in Configs
    /\ cost_range = NoCall
    /\ breakdown = NoCall
    /\ imported = NoImport
    /\ last_entry = NoLastEntry
    /\ hour_check = NoHourCheck
    /\ rate_query = NoRateQuery
    /\ importers = NoImporters

PricingNext ==
    \E ts \in QueryTimes :
        \/ GetRateCall(ts)
        \/ GetRateTypeCall(ts)
        \/ GetSolarRateCall(ts)

PricingSpec == PricingInit /\ [][PricingNext]_vars

\* Two importers, each making one call of _append_to_csv, on a store that does
\* not exist yet or holds one reading.
ConcurrentInit ==
    /\ csv_file \in {MissingFile}
                      \cup { WrittenFile(SortValues(<<row>>)) : row \in NewRows }
    /\ last = NoOutcome
    /\ df = <<>>
    /\ pricing_config = ScenarioTariff
    /\ cost_range = NoCall
    /\ breakdown = NoCall
    /\ imported = NoImport
    /\ last_entry = NoLastEntry
    /\ hour_check = NoHourCheck
    /\ rate_query = NoRateQuery
    /\ importers = NoImporters

ConcurrentNext ==
    \E p \in Importers :
        \/ \E new_data \in Batches : LoadExisting(p, new_data)
        \/ OpenCsv(p)
        \/ WriteCsv(p)

ConcurrentSpec == ConcurrentInit /\ [][ConcurrentNext]_vars

\* The rate queries for the timestamps of the usage readings of a frame, and
\* the breakdown of that frame from Friday 00:00.
FallbackInit ==
    /\ csv_file = MissingFile
    /\ last = NoOutcome
    /\ df \in UsageFrames
    /\ pricing_config \in Configs
    /\ cost_range = NoCall
    /\ breakdown = NoCall
    /\ imported = NoImport
    /\ last_entry = NoLastEntry
    /\ hour_check = NoHourCheck
    /\ rate_query = NoRateQuery
    /\ importers = NoImporters

FallbackNext ==
    \/ \E ts \in TimesOf(df) :
          \/ GetRateCall(ts)
          \/ GetRateTypeCall(ts)
          \/ GetSolarRateCall(ts)
    \/ \E end_date \in EndDates : CalculateDetailedBreakdown(0, end_date)

FallbackSpec == FallbackInit /\ [][FallbackNext]_vars

-----------------------------------------------------------------------------
(* Properties of the merge engine *)

\* The identity key of a reading: NMI, register code, start to the minute.
IdentityKey(row) == <<row.NMI.s, row.RegisterCode, row.StartDate.t \div 60>>

IdentityKeys(rows) == { IdentityKey(rows[i]) : i \in 1..Len(rows) }

\* The field values of a row, dates as instants.
Reading(row) ==
    <<row.NMI.s, row.RegisterCode, row.StartDate.t, row.EndDate.t,
      row.ProfileReadValue>>

ReadingsWithKey(rows, key) ==
    LET sel == SelectSeq(rows, LAMBDA r : IdentityKey(r) = key)
    IN  [i \in 1..Len(sel) |-> Reading(sel[i])]

Range(seq) == { seq[i] : i \in 1..Len(seq) }

\* C1 (key uniqueness): no two rows of the persisted dataset share the key
\* (NMI, RegisterCode, StartDate to the minute).
C1_KeyUniqueness ==
    \A i, j \in 1..Len(csv_file.rows) :
        i # j => IdentityKey(csv_file.rows[i]) # IdentityKey(csv_file.rows[j])

\* C2 (atomic persist): after a merge the persisted file is either exactly the
\* file before the merge or exactly the full combined sorted dataset, and after
\* a merge that reports failure it is the file before the merge.
C2_AtomicPersist ==
    last.op = "append" =>
        /\ \/ csv_file = last.pre
           \/ /\ Prepare(last.pre, last.batch).do = "write"
              /\ csv_file = WrittenFile(Prepare(last.pre, last.batch).combined)
        /\ ~last.ok => csv_file = last.pre

\* C3 (idempotent merge): merging a batch again right after a merge of the same
\* batch that succeeded leaves the persisted dataset as the first merge left it
\* and accepts no reading.
C3_IdempotentMerge ==
    last.repeat => csv_file = last.pre /\ last.added = 0

\* A second merge of the same batch ran on a stored dataset and was reported
\* as a success with nothing to add.
C3_Witness ==
    /\ last.repeat
    /\ last.msg = "no_new_unique"
    /\ Len(csv_file.rows) >= 2

\* C4 (existing wins): for every key that is both stored and incoming, the
\* merge never stores an incoming reading under that key, and after a merge
\* that reports success the stored readings of that key are the ones stored
\* before, field for field.
C4_ExistingWins ==
    last.op = "append" =>
        \A key \in IdentityKeys(last.pre.rows) \cap IdentityKeys(last.batch) :
            /\ Range(ReadingsWithKey(csv_file.rows, key))
                  \subseteq Range(ReadingsWithKey(last.pre.rows, key))
            /\ last.ok => ReadingsWithKey(csv_file.rows, key)
                              = ReadingsWithKey(last.pre.rows, key)

\* A merge rewrote the file while the batch held a reading with a stored key
\* and another value.
C4_Witness ==
    /\ last.op = "append" /\ last.msg = "saved"
    /\ \E i \in 1..Len(last.pre.rows), j \in 1..Len(last.batch) :
          /\ IdentityKey(last.pre.rows[i]) = IdentityKey(last.batch[j])
          /\ last.pre.rows[i].ProfileReadValue # last.batch[j].ProfileReadValue

\* Ascending by (NMI, RegisterCode, StartDate as an instant).
RowLessEq(a, b) ==
    \/ Rank(NMIOrder, a.NMI.s) < Rank(NMIOrder, b.NMI.s)
    \/ /\ a.NMI.s = b.NMI.s
       /\ \/ Rank(RegisterOrder, a.RegisterCode) < Rank(RegisterOrder, b.RegisterCode)
          \/ /\ a.RegisterCode = b.RegisterCode
             /\ a.StartDate.t <= b.StartDate.t

\* C5 (sort invariant): after a merge that reports success the persisted
\* dataset is sorted ascending by (NMI, RegisterCode, StartDate).
C5_SortInvariant ==
    (last.op = "append" /\ last.ok) =>
        \A i \in 1..(Len(csv_file.rows) - 1) :
            RowLessEq(csv_file.rows[i], csv_file.rows[i + 1])

\* C15 (persisted date format): after a merge onto an existing dataset that
\* reports success and rewrote the file, StartDate and EndDate of every row are
\* in the layout DD/MM/YYYY HH:MM:SS.
C15_PersistedDateFormat ==
    (/\ last.op = "append" /\ last.ok /\ last.msg = "saved"
     /\ last.pre.exists /\ last.pre.rows # <<>>) =>
        \A i \in 1..Len(csv_file.rows) :
            /\ csv_file.rows[i].StartDate.k = "dmy"
            /\ csv_file.rows[i].EndDate.k = "dmy"

\* The field values of a row with its quality flag.
FullReading(row) == <<Reading(row), row.QualityFlag>>

FullReadings(rows) == { FullReading(rows[i]) : i \in 1..Len(rows) }

\* C20 (existing data is never disturbed): whatever a merge returns, every
\* reading of the dataset before it is in the dataset after it, field for
\* field.
C20_ExistingDataKept ==
    last.op = "append" =>
        FullReadings(last.pre.rows) \subseteq FullReadings(csv_file.rows)

-----------------------------------------------------------------------------
(* Properties of the billing *)

RECURSIVE SumSeq(_)
SumSeq(seq) == IF seq = <<>> THEN 0 ELSE Head(seq) + SumSeq(Tail(seq))

\* The calendar days of the closed range of a query.
DaysOfRange(call) == DayOf(call.start_date)..DayOf(call.end_date)

\* The readings of a kind that start on a day of the set.
ReadingsOn(days, kind) ==
    SelectSeq(df, LAMBDA row : /\ row.RateTypeDescription = kind
                               /\ DayOf(row.StartDate) \in days)

\* The days a query walked through.
DaysWalked(call) ==
    LET dates == DateRange(call.start_date, call.end_date)
    IN  { DayOf(dates[i]) : i \in 1..Len(dates) }

\* Every month has a season, and the season its day-type tables.
WellFormed(config) ==
    \A ts \in 0..47 : VendorRates(config, ts).ok

RateOrZero(r) == IF r.ok THEN r.v ELSE 0
SolarRateOrZero(r) == IF r.ok /\ r.v # None THEN r.v[1] ELSE 0

UsageKwh(rows) == SumSeq([i \in 1..Len(rows) |-> rows[i].ProfileReadValue])

UsageCost(rows) ==
    SumSeq([i \in 1..Len(rows) |->
        rows[i].ProfileReadValue * RateOrZero(GetRate(pricing_config, rows[i].StartDate))])

SolarCredit(rows) ==
    SumSeq([i \in 1..Len(rows) |->
        rows[i].ProfileReadValue
            * SolarRateOrZero(GetSolarRate(pricing_config, rows[i].StartDate))])

SolarRateAbsent(row) == GetSolarRate(pricing_config, row.StartDate) = Ok(None)

\* C6 (solar-rate absence is recovered): a query that walks over a Solar reading
\* whose solar rate is absent completes with a result, in which that reading
\* adds no credit.
C6_SolarAbsenceRecovered ==
    /\ (/\ cost_range.called
        /\ \E row \in Range(ReadingsOn(DaysWalked(cost_range), "Solar")) :
              SolarRateAbsent(row))
       => /\ cost_range.res.ok
          /\ cost_range.res.v.total_solar_credit
                = SolarCredit(ReadingsOn(DaysWalked(cost_range), "Solar"))
    /\ (/\ breakdown.called
        /\ \E row \in Range(ReadingsOn(DaysWalked(breakdown), "Solar")) :
              SolarRateAbsent(row)
        /\ \A row \in Range(ReadingsOn(DaysWalked(breakdown), "Usage")) :
              GetRateType(pricing_config, row.StartDate).v \in UsageBuckets)
       => /\ breakdown.res.ok
          /\ breakdown.res.v.breakdown.solar.credit
                = SolarCredit(ReadingsOn(DaysWalked(breakdown), "Solar"))

\* C7 (breakdown partition): with a well-formed tariff, the kWh of the buckets
\* peak, off_peak and shoulder of a breakdown add up to the kWh of the Usage
\* readings of the date range.
C7_BreakdownPartition ==
    (breakdown.called /\ WellFormed(pricing_config) /\ breakdown.res.ok) =>
        LET b == breakdown.res.v.breakdown
        IN  b.peak.kwh + b.off_peak.kwh + b.shoulder.kwh
                = UsageKwh(ReadingsOn(DaysOfRange(breakdown), "Usage"))

SameQuery ==
    /\ cost_range.called /\ breakdown.called
    /\ cost_range.start_date = breakdown.start_date
    /\ cost_range.end_date = breakdown.end_date

\* C8 (net-cost agreement): for the same data, tariff and date range the net
\* cost of calculate_cost_range equals the net cost of
\* calculate_detailed_breakdown, and the total usage cost equals the sum of the
\* costs of the three buckets.
C8_NetCostAgreement ==
    (SameQuery /\ cost_range.res.ok /\ breakdown.res.ok) =>
        LET b == breakdown.res.v.breakdown
        IN  /\ cost_range.res.v.net_cost = breakdown.res.v.net_cost
            /\ cost_range.res.v.total_usage_cost
                  = b.peak.cost + b.off_peak.cost + b.shoulder.cost

\* Both queries answered the same range, with usage in two buckets, a usage
\* cost and a solar credit.
C8_Witness ==
    /\ SameQuery /\ cost_range.res.ok /\ breakdown.res.ok
    /\ cost_range.res.v.total_usage_cost > 0
    /\ cost_range.res.v.total_solar_credit > 0
    /\ Cardinality({k \in UsageBuckets : breakdown.res.v.breakdown[k].kwh > 0}) >= 2

\* C9 (billing result): calculate_cost_range returns the usage cost of the
\* Usage readings and the solar credit of the Solar readings that start on a
\* day of the closed range, and net = usage - solar + supply.
C9_BillingResult ==
    (cost_range.called /\ WellFormed(pricing_config) /\ cost_range.res.ok) =>
        LET r == cost_range.res.v
        IN  /\ r.total_usage_cost
                  = UsageCost(ReadingsOn(DaysOfRange(cost_range), "Usage"))
            /\ r.total_solar_credit
                  = SolarCredit(ReadingsOn(DaysOfRange(cost_range), "Solar"))
            /\ r.net_cost
                  = r.total_usage_cost - r.total_solar_credit + r.total_supply_charges

CalendarDays(call) == DayOf(call.end_date) - DayOf(call.start_date) + 1

\* C10 (supply charge over an inclusive day range): for start_date <= end_date
\* both queries count every calendar day from the day of start_date to the day
\* of end_date, and charge the supply charge once a day.
C10_InclusiveDayRange ==
    \A call \in {cost_range, breakdown} :
        (call.called /\ call.start_date <= call.end_date /\ call.res.ok) =>
            /\ call.res.v.total_days = CalendarDays(call)
            /\ call.res.v.total_supply_charges
                  = CalendarDays(call) * GetSupplyCharge(pricing_config)

-----------------------------------------------------------------------------
(* Properties of the pricing queries *)

\* The hours 0..23 of a range [start, end), wrapping past midnight when
\* start >= end.
HoursOfRange(start, end) ==
    IF start < end
    THEN { h \in 0..23 : start <= h /\ h < end }
    ELSE { h \in 0..23 : h >= start \/ h < end }

\* The start and end a range text was written from.
BoundsOf(text) ==
    CHOOSE b \in (0..24) \X (0..24) : RangeText(b[1], b[2]) = text

HoursOfRanges(ranges) ==
    UNION { HoursOfRange(BoundsOf(ranges[i])[1], BoundsOf(ranges[i])[2]) :
                i \in 1..Len(ranges) }

\* C11 (hour-range containment): _is_hour_in_range is true exactly when the
\* hour lies in [start, end) of one of the ranges, wrapping past midnight when
\* start >= end; '22-8' matches exactly 22, 23, 0..7 and '9-17' exactly 9..16.
C11_HourRangeContainment ==
    hour_check.called =>
        /\ hour_check.res = Ok(hour_check.hour \in HoursOfRanges(hour_check.ranges))
        /\ hour_check.ranges = <<RangeText(22, 8)>> =>
              hour_check.res.v = (hour_check.hour \in ({22, 23} \cup 0..7))
        /\ hour_check.ranges = <<RangeText(9, 17)>> =>
              hour_check.res.v = (hour_check.hour \in 9..16)

\* The range 22-8 was asked for the hour 7, past midnight, and held it.
C11_Witness ==
    /\ hour_check.called
    /\ hour_check.ranges = <<RangeText(22, 8)>>
    /\ hour_check.hour = 7
    /\ hour_check.res = Ok(TRUE)

\* The entries of the table of a timestamp whose hour ranges hold its hour.
TableAt(config, ts) == VendorRates(config, ts).v

MatchingEntries(config, ts) ==
    { i \in 1..Len(TableAt(config, ts)) :
        \E k \in 1..Len(TableAt(config, ts)[i].hours) :
            HourOf(ts) \in HoursOfRange(TableAt(config, ts)[i].hours[k][1],
                                        TableAt(config, ts)[i].hours[k][2]) }

\* The earliest declared of them.
FirstEntry(config, ts) ==
    TableAt(config, ts)[CHOOSE i \in MatchingEntries(config, ts) :
                            \A j \in MatchingEntries(config, ts) : i <= j]

Selects(ts) ==
    /\ VendorRates(pricing_config, ts).ok
    /\ MatchingEntries(pricing_config, ts) # {}

EntryNamed(config, ts, name) ==
    CHOOSE e \in Range(TableAt(config, ts)) : e.name = name

\* C12 (first-match tariff resolution): where an entry of the table holds the
\* hour, get_rate, get_rate_type and get_solar_rate return the rate, the name
\* and the solar rate of the earliest declared such entry, so the rate of a
\* timestamp is the rate of the entry get_rate_type names for it.
C12_FirstMatch ==
    /\ (rate_query.rate.called /\ Selects(rate_query.rate.ts)) =>
          rate_query.rate.res
              = Ok(FirstEntry(pricing_config, rate_query.rate.ts).rate)
    /\ (rate_query.rate_type.called /\ Selects(rate_query.rate_type.ts)) =>
          rate_query.rate_type.res
              = Ok(FirstEntry(pricing_config, rate_query.rate_type.ts).name)
    /\ (rate_query.solar.called /\ Selects(rate_query.solar.ts)) =>
          rate_query.solar.res
              = Ok(FirstEntry(pricing_config, rate_query.solar.ts).solar_rate)
    /\ (/\ rate_query.rate.called /\ rate_query.rate_type.called
        /\ rate_query.rate.ts = rate_query.rate_type.ts
        /\ Selects(rate_query.rate.ts)) =>
          /\ rate_query.rate.res.ok /\ rate_query.rate_type.res.ok
          /\ rate_query.rate.res.v
                = EntryNamed(pricing_config, rate_query.rate.ts,
                             rate_query.rate_type.res.v).rate

\* The three queries were asked for one timestamp whose hour lies in the
\* ranges of two entries with different rates.
C12_Witness ==
    /\ rate_query.rate.called /\ rate_query.rate_type.called
    /\ rate_query.solar.called
    /\ rate_query.rate.ts = rate_query.rate_type.ts
    /\ rate_query.rate.ts = rate_query.solar.ts
    /\ Selects(rate_query.rate.ts)
    /\ \E i, j \in MatchingEntries(pricing_config, rate_query.rate.ts) :
          TableAt(pricing_config, rate_query.rate.ts)[i].rate
              # TableAt(pricing_config, rate_query.rate.ts)[j].rate
    /\ rate_query.rate.res.ok /\ rate_query.rate_type.res.ok
    /\ rate_query.solar.res.ok

\* The table of the timestamp exists and none of its entries holds the hour.
NoMatch(ts) ==
    /\ VendorRates(pricing_config, ts).ok
    /\ MatchingEntries(pricing_config, ts) = {}

\* The bucket and the rate of a usage reading: those of the earliest declared
\* entry that holds its hour, off_peak and zero when none does.
BucketOf(row) ==
    IF NoMatch(row.StartDate) THEN "off_peak"
    ELSE FirstEntry(pricing_config, row.StartDate).name

RateFor(row) ==
    IF NoMatch(row.StartDate) THEN 0
    ELSE FirstEntry(pricing_config, row.StartDate).rate

\* The table of the reading exists and the reading has a bucket of the
\* breakdown.
Billable(row) ==
    /\ VendorRates(pricing_config, row.StartDate).ok
    /\ BucketOf(row) \in UsageBuckets

\* The usage readings the breakdown walked over.
UsageWalked == ReadingsOn(DaysWalked(breakdown), "Usage")

RowsOfBucket(rows, bucket) == SelectSeq(rows, LAMBDA row : BucketOf(row) = bucket)

BucketKwh(rows) == SumSeq([i \in 1..Len(rows) |-> rows[i].ProfileReadValue])

BucketCost(rows) ==
    SumSeq([i \in 1..Len(rows) |-> rows[i].ProfileReadValue * RateFor(rows[i])])

\* C23 (no-match fallbacks): when the table of the timestamp exists and no
\* entry holds its hour, get_rate returns 0, get_rate_type 'off_peak' and
\* get_solar_rate None, none raising; a breakdown over usage readings that all
\* have a table and a bucket returns, and counts a reading whose hour no entry
\* holds in the kWh of off_peak and adds nothing to its cost.
C23_NoMatchFallbacks ==
    /\ (rate_query.rate.called /\ NoMatch(rate_query.rate.ts)) =>
          rate_query.rate.res = Ok(0)
    /\ (rate_query.rate_type.called /\ NoMatch(rate_query.rate_type.ts)) =>
          rate_query.rate_type.res = Ok("off_peak")
    /\ (rate_query.solar.called /\ NoMatch(rate_query.solar.ts)) =>
          rate_query.solar.res = Ok(None)
    /\ breakdown.called =>
          \A walked \in {UsageWalked} :
              (\A row \in Range(walked) : Billable(row)) =>
                  /\ breakdown.res.ok
                  /\ \A bucket \in UsageBuckets :
                        \A rows \in {RowsOfBucket(walked, bucket)} :
                            /\ breakdown.res.v.breakdown[bucket].kwh
                                  = BucketKwh(rows)
                            /\ breakdown.res.v.breakdown[bucket].cost
                                  = BucketCost(rows)

\* The three queries were asked for a timestamp whose hour no entry holds, and
\* the breakdown walked over a reading at that timestamp and over a reading
\* the off_peak entry holds: off_peak has the kWh of both and the cost of the
\* second only.
C23_Witness ==
    /\ rate_query.rate.called /\ rate_query.rate_type.called
    /\ rate_query.solar.called
    /\ rate_query.rate.ts = rate_query.rate_type.ts
    /\ rate_query.rate.ts = rate_query.solar.ts
    /\ NoMatch(rate_query.rate.ts)
    /\ rate_query.rate.res = Ok(0)
    /\ breakdown.called /\ breakdown.res.ok
    /\ \E walked \in {UsageWalked} :
          /\ Len(walked) = 2
          /\ walked[1].StartDate = rate_query.rate.ts
          /\ ~NoMatch(walked[2].StartDate)
          /\ BucketOf(walked[2]) = "off_peak"
          /\ breakdown.res.v.breakdown.off_peak.kwh
                = walked[1].ProfileReadValue + walked[2].ProfileReadValue
          /\ breakdown.res.v.breakdown.off_peak.cost
                = walked[2].ProfileReadValue * RateFor(walked[2])
          /\ breakdown.res.v.breakdown.off_peak.cost > 0

-----------------------------------------------------------------------------
(* Properties of the import *)

\* The store holds a reading of the NMI.
StoreHasNMI(csv, nmi) == \E i \in 1..Len(csv.rows) : csv.rows[i].NMI.s = nmi

\* C13 as claimed (NoBaseline refusal): an import without from_date into a
\* store with no reading of the NMI is refused and leaves the store unchanged,
\* also when a NEM12 file is supplied.
C13_NoBaselineRefusal ==
    (/\ imported.called /\ imported.from_arg = None
     /\ ~StoreHasNMI(imported.pre, imported.nmi)) =>
        /\ ~imported.ok
        /\ csv_file = imported.pre

\* C13 as amended: an import without from_date and without a NEM12 file into a
\* store with no reading of the NMI is refused with the no-baseline failure and
\* leaves the store unchanged; with a NEM12 file it is not refused for the
\* lack of a baseline and runs without a start date.
C13_NoBaselineWithoutFile ==
    (/\ imported.called /\ imported.from_arg = None
     /\ ~StoreHasNMI(imported.pre, imported.nmi)) =>
        IF imported.nem12.given
        THEN imported.msg # "no_baseline" /\ imported.from_date = None
        ELSE /\ ~imported.ok /\ imported.msg = "no_baseline"
             /\ csv_file = imported.pre

\* An import without from_date and without a file was refused on a store that
\* holds readings, none of the NMI.
C13_Witness ==
    /\ imported.called /\ imported.from_arg = None
    /\ ~imported.nem12.given
    /\ imported.pre.rows # <<>>
    /\ ~StoreHasNMI(imported.pre, imported.nmi)
    /\ ~imported.ok /\ imported.msg = "no_baseline"

\* C14 (accepted count): the number of records a successful import reports as
\* added is the number of rows it appended to the persisted dataset.
C14_AcceptedCount ==
    (imported.called /\ imported.ok) =>
        imported.count = Len(csv_file.rows) - Len(imported.pre.rows)

\* The register code and the rate type of a channel suffix.
ExpectedRegisterCode(suffix) ==
    CASE suffix = SuffixE1 -> <<"S", "#", "E", "1">>
      [] suffix = SuffixB1 -> <<"S", "#", "B", "1">>
      [] suffix = SuffixQ1 -> <<"S", "#", "Q", "1">>

ExpectedRateType(suffix) ==
    CASE suffix[1] = "E" -> "Usage"
      [] suffix[1] = "B" -> "Solar"
      [] OTHER -> "Other"

\* The records of the imported file that belong to the NMI of the import.
RecordsOfNMI == SelectSeq(imported.nem12.rows, LAMBDA row : row.nmi = imported.nmi)

\* The reading a record of a NEM12 file stands for.
ReadingOf(row) ==
    <<<<row.nmi, ExpectedRegisterCode(row.suffix), row.t_start, row.t_end,
        row.value>>, row.quality>>

KeyOfRecord(row) ==
    <<row.nmi, ExpectedRegisterCode(row.suffix), row.t_start \div 60>>

\* The pre-filter of the import let the record through.
NotFiltered(row) ==
    imported.from_date = None \/ row.t_start >= imported.from_date[1]

\* C16 (channel mapping): the conversion yields one row for each record, with
\* RegisterCode '<serial>#<suffix>' and the rate type Usage for E.., Solar for
\* B.., Other otherwise; records of the channels E1 and B1 of one NMI, serial
\* and interval give rows with distinct register codes, and an import of them
\* that reports success leaves both readings in the store.
C16_ChannelMapping ==
    (imported.called /\ imported.nem12.exists) =>
        /\ Len(imported.converted) = Len(RecordsOfNMI)
        /\ \A i \in 1..Len(RecordsOfNMI) :
              /\ imported.converted[i].RegisterCode
                    = ExpectedRegisterCode(RecordsOfNMI[i].suffix)
              /\ imported.converted[i].RateTypeDescription
                    = ExpectedRateType(RecordsOfNMI[i].suffix)
              /\ FullReading(imported.converted[i]) = ReadingOf(RecordsOfNMI[i])
        /\ \A i, j \in 1..Len(RecordsOfNMI) :
              (/\ RecordsOfNMI[i].suffix = SuffixE1
               /\ RecordsOfNMI[j].suffix = SuffixB1
               /\ RecordsOfNMI[i].serno = RecordsOfNMI[j].serno
               /\ RecordsOfNMI[i].t_start = RecordsOfNMI[j].t_start) =>
                  /\ imported.converted[i].RegisterCode
                        # imported.converted[j].RegisterCode
                  /\ (/\ imported.ok /\ imported.msg = "added"
                      /\ NotFiltered(RecordsOfNMI[i])) =>
                        \E a, b \in 1..Len(csv_file.rows) :
                            /\ a # b
                            /\ IdentityKey(csv_file.rows[a])
                                  = KeyOfRecord(RecordsOfNMI[i])
                            /\ IdentityKey(csv_file.rows[b])
                                  = KeyOfRecord(RecordsOfNMI[j])

\* A file with the channels E1 and B1 of one interval was imported and the
\* store holds the two readings.
C16_Witness ==
    /\ imported.called /\ imported.ok /\ imported.msg = "added"
    /\ imported.nem12.rows
          = <<Nem12Row("4103", SuffixE1, 0, 1), Nem12Row("4103", SuffixB1, 0, 1)>>
    /\ imported.pre.rows = <<>>
    /\ Len(csv_file.rows) = 2
    /\ csv_file.rows[1].RegisterCode # csv_file.rows[2].RegisterCode
    /\ csv_file.rows[1].RateTypeDescription = "Solar"
    /\ csv_file.rows[2].RateTypeDescription = "Usage"

\* The EndDate instants of the stored readings of an NMI.
NMIEndDates(csv, nmi) ==
    { csv.rows[i].EndDate.t : i \in { j \in 1..Len(csv.rows) : csv.rows[j].NMI.s = nmi } }

\* The readings the import added to the store.
AddedReadings == FullReadings(csv_file.rows) \ FullReadings(imported.pre.rows)

StartOfReading(reading) == reading[1][3]

C18_LastEntryEnd ==
    last_entry.called =>
        last_entry.res
            = IF StoreHasNMI(csv_file, last_entry.nmi)
              THEN Some(MaxOf(NMIEndDates(csv_file, last_entry.nmi)))
              ELSE None

\* C19 (lossless incremental import): after an import without from_date that
\* reports success, every reading of the file for the NMI whose key was not
\* stored before is in the store.
C19_LosslessIncrementalImport ==
    (/\ imported.called /\ imported.from_arg = None
     /\ imported.nem12.exists /\ imported.ok) =>
        \A i \in 1..Len(RecordsOfNMI) :
            KeyOfRecord(RecordsOfNMI[i]) \notin IdentityKeys(imported.pre.rows)
                => ReadingOf(RecordsOfNMI[i]) \in FullReadings(csv_file.rows)

\* StartDate and EndDate of every row of the file are DD/MM/YYYY HH:MM:SS.
DatesMatch(csv) ==
    \A i \in 1..Len(csv.rows) :
        csv.rows[i].StartDate.k = "dmy" /\ csv.rows[i].EndDate.k = "dmy"

\* The import has a record to hand to the merge: the file exists and a record
\* of the NMI passes the pre-filter.
ReachesMerge ==
    /\ imported.nem12.exists
    /\ \E i \in 1..Len(RecordsOfNMI) : NotFiltered(RecordsOfNMI[i])

-----------------------------------------------------------------------------
(* Properties of the importers that share the file *)

\* The rows of its batch a call of _append_to_csv reported as saved.
AcceptedBy(importer) ==
    IF ~importer.ok \/ Prepare(importer.existing, importer.batch).do # "write"
    THEN <<>>
    ELSE IF importer.existing.exists
    THEN RemoveDuplicates(importer.batch,
                          ParseDates(ReadCsv(importer.existing.rows)))
    ELSE importer.batch

AllDone == \A p \in Importers : importers[p].pc = "done"

\* No two rows of the batch share the key.
DistinctKeys(batch) ==
    \A i, j \in 1..Len(batch) :
        i # j => IdentityKey(batch[i]) # IdentityKey(batch[j])

\* C21 (concurrent importers): when two calls of _append_to_csv that ran their
\* load, merge and write steps interleaved on the same file have returned, the
\* file holds every reading either of them reported as saved, and no two of
\* its rows share the key (NMI, RegisterCode, StartDate to the minute).  Stated
\* for batches whose own rows have distinct keys, for which calls that run one
\* after the other satisfy it.
C21_ConcurrentImporters ==
    (AllDone /\ \A p \in Importers : DistinctKeys(importers[p].batch)) =>
        /\ \A p \in Importers :
              FullReadings(AcceptedBy(importers[p]))
                  \subseteq FullReadings(csv_file.rows)
        /\ \A i, j \in 1..Len(csv_file.rows) :
              i # j => IdentityKey(csv_file.rows[i]) # IdentityKey(csv_file.rows[j])

====
